---- MODULE Spec2Model ----
(***************************************************************************)
(* Gesture volume control: the per-frame pipeline of app.py                *)
(* (generate_frames, smooth_volume, calibrate) and the dispatcher of       *)
(* volume_controller.py (VolumeController.set_volume).                     *)
(*                                                                         *)
(* Numbers.  Readings and smoothed values are Python floats; here they are *)
(* exact rationals.  A reading is an integer count of 1/Scale units        *)
(* (Scale = 28 makes both reading formulas exact: the simulation formula   *)
(* has denominator 14, the live one 4), and a mean is the pair             *)
(* [sum, n] standing for sum / (n * Scale).                                *)
(*                                                                         *)
(* Time.  time.time() is counted in ticks of 0.05 s, so min_interval       *)
(* (0.1 s) is 2 ticks and time.sleep(0.05) is 1 tick.                      *)
(***************************************************************************)
EXTENDS Integers, Sequences, FiniteSets, TLC

VARIABLES
    camera,                   \* app.camera: "simulation" or "open" (a device)
    pc,                       \* generate_frames: "running" or "stopped"
    current_volume,           \* app.current_volume
    gesture_active,           \* app.gesture_active
    volume_smoothing_buffer,  \* app.volume_smoothing_buffer
    simulated_finger_y,       \* generate_frames local
    finger_direction,         \* generate_frames local
    relative_height,          \* generate_frames local: this frame's reading, -1 if none
    smooth_height,            \* generate_frames local: this frame's mean, n = 0 if none
    volume_method,            \* VolumeController.volume_method ("unset": attribute missing)
    vc_current_volume,        \* VolumeController.current_volume
    last_set_time,            \* VolumeController.last_set_time
    now,                      \* time.time()
    set_result,               \* what the last step's set_volume call returned, "none" if no call
    invoked,                  \* whether the last step called _set_system_volume
    invoke_time,              \* time of the latest _set_system_volume call, -1 if none
    step,                     \* the operation that made the last step
    history,                  \* log of the calls made in SmoothSpec and GateSpec; <<>> elsewhere
    yielded,                  \* frames the last step yielded to the stream (0 or 1)
    host,                     \* the machine: OS family, probe outcomes, device-open outcomes
    proc,                     \* __main__: "start", "serving", "exited", "exit_raised"
    held,                     \* indices of the capture devices opened and not released
    loops,                    \* per video_feed request: its generator "none", "running", "stopped"
    writer,                   \* the request whose generator ran the last frame, 0 if none
    sv_pc,                    \* position inside a smooth_volume call taken statement by statement
    sv_acc                    \* that call's sum(volume_smoothing_buffer), once evaluated

vars == <<camera, pc, current_volume, gesture_active, volume_smoothing_buffer,
          simulated_finger_y, finger_direction, relative_height, smooth_height,
          volume_method, vc_current_volume, last_set_time, now, set_result,
          invoked, invoke_time, step, history, yielded, host, proc, held, loops,
          writer, sv_pc, sv_acc>>

\* What the pipeline and the dispatcher never touch
others == <<host, proc, held, loops, writer, sv_pc, sv_acc>>

\* What start-up and shutdown never touch
pipeline == <<pc, current_volume, gesture_active, volume_smoothing_buffer,
              simulated_finger_y, finger_direction, relative_height, smooth_height,
              volume_method, vc_current_volume, last_set_time, now, set_result,
              invoked, invoke_time, history, loops, writer, sv_pc, sv_acc>>

----------------------------------------------------------------------------
\* Program constants

SMOOTHING_WINDOW == 5
MinInterval == 2
SleepTicks == 1
SimThreshold == 1
LiveThreshold == 2
InitialVolume == 50
OscStart == 240
OscStep == 2
OscLow == 100
OscHigh == 380
Scale == 4 * 7

\* Bounds of the model
MaxTime == 7
MaxDelay == 2
MaxHistory == 7
\* Ticks of a simulation run long enough for the oscillator to go through a
\* whole period (280 frames) and start the next.
OscMaxTime == 300

\* time.time() at start-up is the epoch time, far more than min_interval after
\* last_set_time = 0: the first set_volume call is never rate limited.
StartTime == MinInterval

\* Pixel rows of the index fingertip and of the wrist that the detector reports.
FingerYs == {292, 312}
WristYs == {300}

VolumeMethods == {"windows_powershell", "macos_osascript", "linux_pulseaudio",
                  "linux_alsa", "unsupported", "unset"}

\* What _init_linux_volume selects on a host with pactl, and on one with neither
\* pactl nor amixer.
HostMethods == {"linux_pulseaudio", "unsupported"}

----------------------------------------------------------------------------
\* Helpers

Abs(x) == IF x < 0 THEN 0 - x ELSE x

Max2(a, b) == IF a > b THEN a ELSE b

Min2(a, b) == IF a < b THEN a ELSE b

RECURSIVE SumSeq(_)
SumSeq(s) == IF s = <<>> THEN 0 ELSE Head(s) + SumSeq(Tail(s))

NoMean == [sum |-> 0, n |-> 0]

\* sum(buffer) / len(buffer)
Mean(buf) == [sum |-> SumSeq(buf), n |-> Len(buf)]

\* app.py:83  max(0, min(100, 100 - ((simulated_finger_y - 240) / 140 * 50)))
SimReading(y) ==
    Max2(0, Min2(100 * Scale, 100 * Scale - ((y - OscStart) * 50 * Scale) \div 140))

\* Mutant of LiveReading: the reading is not clamped to 0..100
LiveReading_NoClamp(finger_y, wrist_y) ==
    100 * Scale - ((finger_y - wrist_y + 200) * 100 * Scale) \div 400

\* app.py:139  max(0, min(100, 100 - ((finger_y - wrist_y + 200) / 400 * 100)))
LiveReading(finger_y, wrist_y) ==
    Max2(0, Min2(100 * Scale, 100 * Scale - ((finger_y - wrist_y + 200) * 100 * Scale) \div 400))

\* Mutant of SmoothBuffer: evicts as soon as the window is full (>= for >)
SmoothBuffer_EvictsEarly(buf, r) ==
    LET appended == Append(buf, r)
    IN  IF Len(appended) >= SMOOTHING_WINDOW THEN Tail(appended) ELSE appended

\* app.py:53-55  append, then pop(0) when longer than the window
SmoothBuffer(buf, r) ==
    LET appended == Append(buf, r)
    IN  IF Len(appended) > SMOOTHING_WINDOW THEN Tail(appended) ELSE appended

\* app.py:57  the value smooth_volume returns
SmoothValue(buf, r) == Mean(SmoothBuffer(buf, r))

\* Mutant of GateAccepts: >= for >
GateAccepts_Inclusive(sh, cv, threshold) ==
    Abs(sh.sum - cv * sh.n * Scale) >= threshold * sh.n * Scale

\* Mutant of GateAccepts: the live threshold in both modes
GateAccepts_LiveThreshold(sh, cv, threshold) ==
    Abs(sh.sum - cv * sh.n * Scale) > LiveThreshold * sh.n * Scale

\* app.py:89 / app.py:145  abs(smooth_height - current_volume) > threshold
GateAccepts(sh, cv, threshold) ==
    Abs(sh.sum - cv * sh.n * Scale) > threshold * sh.n * Scale

\* app.py:90 / app.py:146  int(smooth_height)
IntOf(sh) == sh.sum \div (sh.n * Scale)

\* Mutant of RateLimited: the interval one tick short
RateLimited_Short(t) == t - last_set_time < MinInterval - 1

\* volume_controller.py:62  current_time - self.last_set_time < self.min_interval
RateLimited(t) == t - last_set_time < MinInterval

\* volume_controller.py:65  max(0, min(100, int(volume_percent)))
ClampPercent(v) == Max2(0, Min2(100, v))

\* volume_controller.py:77-93: the write succeeds only on a selected backend
\* whose external command succeeds; "unsupported" returns False and a missing
\* volume_method attribute raises inside the try, which returns False.
SetSystemVolume(method, command_ok) ==
    /\ method \in {"windows_powershell", "macos_osascript", "linux_pulseaudio", "linux_alsa"}
    /\ command_ok

\* Mutant of set_volume: the timestamp is taken before the rate check
set_volume_StampsFirst(volume_percent, t, command_ok) ==
    IF RateLimited(t)
    THEN /\ set_result' = "false"
         /\ invoked' = FALSE
         /\ last_set_time' = t
         /\ UNCHANGED <<vc_current_volume, invoke_time>>
    ELSE /\ invoked' = TRUE
         /\ invoke_time' = t
         /\ last_set_time' = t
         /\ IF SetSystemVolume(volume_method, command_ok)
            THEN /\ vc_current_volume' = ClampPercent(volume_percent)
                 /\ set_result' = "true"
            ELSE /\ set_result' = "false"
                 /\ UNCHANGED vc_current_volume

\* Mutant of set_volume: current_volume and last_set_time are assigned before
\* the backend is asked
set_volume_RecordsFailure(volume_percent, t, command_ok) ==
    IF RateLimited(t)
    THEN /\ set_result' = "false"
         /\ invoked' = FALSE
         /\ UNCHANGED <<vc_current_volume, last_set_time, invoke_time>>
    ELSE /\ invoked' = TRUE
         /\ invoke_time' = t
         /\ vc_current_volume' = ClampPercent(volume_percent)
         /\ last_set_time' = t
         /\ set_result' = IF SetSystemVolume(volume_method, command_ok)
                          THEN "true" ELSE "false"

\* volume_controller.py:57-75  set_volume(volume_percent) called at time t
set_volume(volume_percent, t, command_ok) ==
    IF RateLimited(t)
    THEN /\ set_result' = "false"
         /\ invoked' = FALSE
         /\ UNCHANGED <<vc_current_volume, last_set_time, invoke_time>>
    ELSE /\ invoked' = TRUE
         /\ invoke_time' = t
         /\ IF SetSystemVolume(volume_method, command_ok)
            THEN /\ vc_current_volume' = ClampPercent(volume_percent)
                 /\ last_set_time' = t
                 /\ set_result' = "true"
            ELSE /\ set_result' = "false"
                 /\ UNCHANGED <<vc_current_volume, last_set_time>>

no_set_volume ==
    /\ set_result' = "none"
    /\ invoked' = FALSE
    /\ UNCHANGED <<vc_current_volume, last_set_time, invoke_time>>

\* app.py:86-92 / app.py:142-148: smooth the reading, then the gate
SmoothAndGate(r, threshold, t, command_ok) ==
    LET sh == SmoothValue(volume_smoothing_buffer, r)
    IN  /\ relative_height' = r
        /\ volume_smoothing_buffer' = SmoothBuffer(volume_smoothing_buffer, r)
        /\ smooth_height' = sh
        /\ IF GateAccepts(sh, current_volume, threshold)
           THEN /\ current_volume' = IntOf(sh)
                /\ set_volume(IntOf(sh), t, command_ok)
                /\ gesture_active' = TRUE
           ELSE /\ no_set_volume
                /\ UNCHANGED <<current_volume, gesture_active>>

\* Mutant of calibrate: without the global declaration the assignment is local
calibrate_Local == UNCHANGED volume_smoothing_buffer

\* app.py:225-226  volume_smoothing_buffer = []
calibrate == volume_smoothing_buffer' = <<>>

----------------------------------------------------------------------------
\* The machine

\* Indices initialize_camera tries: 0, then range(1, 4)
DeviceIndices == 0..3

\* The requests that may ask for /video_feed
Clients == {1, 2}

\* A machine on which start-up ends with this camera and this volume_method
HostOf(cam, method) ==
    [system |-> CASE method = "windows_powershell" -> "Windows"
                  [] method = "macos_osascript" -> "Darwin"
                  [] method = "unset" -> "Other"
                  [] OTHER -> "Linux",
     pactl  |-> IF method = "linux_pulseaudio" THEN "ok" ELSE "missing",
     amixer |-> IF method = "linux_alsa" THEN "ok" ELSE "missing",
     opens  |-> [i \in DeviceIndices |-> IF cam = "open" THEN "open" ELSE "fail"],
     set_ok |-> TRUE]

----------------------------------------------------------------------------
\* Initial state

\* app.py:10-19, volume_controller.py:8-16  the module's globals and the
\* controller's fields, with the camera and the backend handle drawn from
\* cameras and methods
ModuleLoad(cameras, methods) ==
    /\ camera \in cameras
    /\ pc = "running"
    /\ current_volume = InitialVolume
    /\ gesture_active = FALSE
    /\ volume_smoothing_buffer = <<>>
    /\ simulated_finger_y = OscStart
    /\ finger_direction = 1
    /\ relative_height = -1
    /\ smooth_height = NoMean
    /\ volume_method \in methods
    /\ vc_current_volume = InitialVolume
    /\ last_set_time = 0
    /\ now = StartTime
    /\ set_result = "none"
    /\ invoked = FALSE
    /\ invoke_time = -1
    /\ step = "init"
    /\ history = <<>>
    /\ yielded = 0
    /\ loops = [c \in Clients |-> "none"]
    /\ writer = 0
    /\ sv_pc = "idle"
    /\ sv_acc = 0

\* Module load of app.py, VolumeController() constructed, initialize_camera()
\* returned, the server accepting requests
InitWith(cameras, methods) ==
    /\ ModuleLoad(cameras, methods)
    /\ host = HostOf(camera, volume_method)
    /\ proc = "serving"
    /\ held = IF camera = "open" THEN {0} ELSE {}

Init == InitWith({"simulation", "open"}, HostMethods)

----------------------------------------------------------------------------
\* Operations

\* Mutant of NextDirection: the upper bound is tested with > for >=
NextDirection_LateReversal(y, dir) ==
    IF y <= OscLow THEN 1
    ELSE IF y > OscHigh THEN -1
    ELSE dir

\* app.py:77-80  the direction after the oscillator has moved to y
NextDirection(y, dir) ==
    IF y <= OscLow THEN 1
    ELSE IF y >= OscHigh THEN -1
    ELSE dir

\* app.py:70-109  one iteration of generate_frames in simulation mode, taking
\* one of delays beyond its sleep and ending no later than limit
SimFrameWith(delays, limit) ==
    /\ camera = "simulation"
    /\ pc = "running"
    /\ \E delay \in delays, command_ok \in BOOLEAN :
         LET y == simulated_finger_y + finger_direction * OscStep
             t == now + delay
         IN  /\ t + SleepTicks <= limit
             /\ simulated_finger_y' = y
             /\ finger_direction' = NextDirection(y, finger_direction)
             /\ SmoothAndGate(SimReading(y), SimThreshold, t, command_ok)
             /\ now' = t + SleepTicks
    /\ step' = "sim"
    /\ yielded' = 1
    /\ UNCHANGED others
    /\ UNCHANGED <<camera, pc, volume_method, history>>

SimFrame == SimFrameWith(0..MaxDelay, MaxTime)

\* app.py:111-148  one iteration in real camera mode, hand detected, the
\* detector reporting a fingertip row of fingers and a wrist row of wrists
LiveFrameHandWith(fingers, wrists) ==
    /\ camera = "open"
    /\ pc = "running"
    /\ \E delay \in 0..MaxDelay, command_ok \in BOOLEAN,
          finger_y \in fingers, wrist_y \in wrists :
         LET t == now + delay
         IN  /\ t <= MaxTime
             /\ SmoothAndGate(LiveReading(finger_y, wrist_y), LiveThreshold, t, command_ok)
             /\ now' = t
    /\ step' = "hand"
    /\ yielded' = 1
    /\ UNCHANGED others
    /\ UNCHANGED <<camera, pc, simulated_finger_y, finger_direction, volume_method, history>>

LiveFrameHand == LiveFrameHandWith(FingerYs, WristYs)

\* Mutant of LiveFrameNoHand: the else branch that clears gesture_active is missing
LiveFrameNoHand_KeepsFlag ==
    /\ camera = "open"
    /\ pc = "running"
    /\ \E delay \in 0..MaxDelay :
         /\ now + delay <= MaxTime
         /\ now' = now + delay
    /\ relative_height' = -1
    /\ smooth_height' = NoMean
    /\ no_set_volume
    /\ step' = "nohand"
    /\ yielded' = 1
    /\ UNCHANGED others
    /\ UNCHANGED <<camera, pc, current_volume, gesture_active, volume_smoothing_buffer,
                   simulated_finger_y, finger_direction, volume_method, history>>

\* Mutant of LiveFrameNoHand: a frame without a hand ends the generator
LiveFrameNoHand_Breaks ==
    /\ camera = "open"
    /\ pc = "running"
    /\ \E delay \in 0..MaxDelay :
         /\ now + delay <= MaxTime
         /\ now' = now + delay
    /\ gesture_active' = FALSE
    /\ relative_height' = -1
    /\ smooth_height' = NoMean
    /\ no_set_volume
    /\ pc' = "stopped"
    /\ step' = "nohand"
    /\ yielded' = 1
    /\ UNCHANGED others
    /\ UNCHANGED <<camera, current_volume, volume_smoothing_buffer,
                   simulated_finger_y, finger_direction, volume_method, history>>

\* Mutant of LiveFrameNoHand: a frame without a hand goes to the next
\* iteration without encoding and yielding the frame
LiveFrameNoHand_SkipsFrame ==
    /\ camera = "open"
    /\ pc = "running"
    /\ \E delay \in 0..MaxDelay :
         /\ now + delay <= MaxTime
         /\ now' = now + delay
    /\ gesture_active' = FALSE
    /\ relative_height' = -1
    /\ smooth_height' = NoMean
    /\ no_set_volume
    /\ step' = "nohand"
    /\ yielded' = 0
    /\ UNCHANGED others
    /\ UNCHANGED <<camera, pc, current_volume, volume_smoothing_buffer,
                   simulated_finger_y, finger_direction, volume_method, history>>

\* app.py:111-127, 156-157  one iteration in real camera mode, no hand detected
LiveFrameNoHand ==
    /\ camera = "open"
    /\ pc = "running"
    /\ \E delay \in 0..MaxDelay :
         /\ now + delay <= MaxTime
         /\ now' = now + delay
    /\ gesture_active' = FALSE
    /\ relative_height' = -1
    /\ smooth_height' = NoMean
    /\ no_set_volume
    /\ step' = "nohand"
    /\ yielded' = 1
    /\ UNCHANGED others
    /\ UNCHANGED <<camera, pc, current_volume, volume_smoothing_buffer,
                   simulated_finger_y, finger_direction, volume_method, history>>

\* app.py:116-118  camera.read() fails: the generator ends.  Nothing releases
\* the device; whether it still reports isOpened() is the driver's matter.
LiveReadFail ==
    /\ camera = "open"
    /\ pc = "running"
    /\ pc' = "stopped"
    /\ camera' \in {"open", "closed"}
    /\ step' = "stop"
    /\ yielded' = 0
    /\ UNCHANGED others
    /\ UNCHANGED <<current_volume, gesture_active, volume_smoothing_buffer,
                   simulated_finger_y, finger_direction, relative_height, smooth_height,
                   volume_method, vc_current_volume, last_set_time, now, set_result,
                   invoked, invoke_time, history>>

\* app.py:222-227  calibrate
Calibrate ==
    /\ calibrate
    /\ step' = "calibrate"
    /\ yielded' = 0
    /\ UNCHANGED others
    /\ UNCHANGED <<camera, pc, current_volume, gesture_active,
                   simulated_finger_y, finger_direction, relative_height, smooth_height,
                   volume_method, vc_current_volume, last_set_time, now, set_result,
                   invoked, invoke_time, history>>

\* app.py:212-220  get_status(): the JSON it answers
get_status ==
    [volume        |-> current_volume,
     gesture_active |-> gesture_active,
     camera_active |-> camera = "simulation" \/ (camera # "none" /\ camera = "open")]

Next ==
    \/ SimFrame
    \/ LiveFrameHand
    \/ LiveFrameNoHand
    \/ LiveReadFail
    \/ Calibrate

Spec == Init /\ [][Next]_vars

----------------------------------------------------------------------------
\* The dispatcher alone: VolumeController's public methods called in any
\* order, at any non-decreasing times, the external command succeeding or not.

\* Arguments of set_volume: below, inside and above 0..100.
CallVolumes == {-5, 30, 120}

DispatchSteps == {"set_volume", "mute", "unmute", "volume_up", "volume_down"}

\* A call of set_volume(v) as the step named label
DispatchCall(label, v) ==
    /\ \E delay \in 0..MaxDelay, command_ok \in BOOLEAN :
         /\ now + delay <= MaxTime
         /\ now' = now + delay
         /\ set_volume(v, now + delay, command_ok)
    /\ step' = label
    /\ yielded' = 0
    /\ UNCHANGED others
    /\ UNCHANGED <<camera, pc, current_volume, gesture_active, volume_smoothing_buffer,
                   simulated_finger_y, finger_direction, relative_height, smooth_height,
                   volume_method, history>>

\* volume_controller.py:57-75
CallSetVolume == \E v \in CallVolumes : DispatchCall("set_volume", v)

\* volume_controller.py:170-172
Mute == DispatchCall("mute", 0)

\* volume_controller.py:174-176  unmute(volume=50)
Unmute == DispatchCall("unmute", 50)

\* volume_controller.py:178-181  volume_up(step=5)
VolumeUp == DispatchCall("volume_up", Min2(100, vc_current_volume + 5))

\* volume_controller.py:183-186  volume_down(step=5)
VolumeDown == DispatchCall("volume_down", Max2(0, vc_current_volume - 5))

DispatchInit == InitWith({"simulation"}, VolumeMethods)

DispatchNext ==
    \/ CallSetVolume
    \/ Mute
    \/ Unmute
    \/ VolumeUp
    \/ VolumeDown

DispatchSpec == DispatchInit /\ [][DispatchNext]_vars

----------------------------------------------------------------------------
\* smooth_volume and calibrate alone: any readings, calibrate at any point.
\* Here history is the log of the calls: each reading passed to
\* smooth_volume, and -1 for each calibrate.

\* Readings 100 (clamped from 110), 47.75 and 0 (clamped from -19.75): the
\* fingertip 240 px above, 9 px below and 279 px below the wrist
SmoothReadings == {LiveReading(60, 300), LiveReading(309, 300), LiveReading(479, 200)}

\* app.py:49-57  smooth_volume(new_volume)
SmoothCall ==
    /\ Len(history) < MaxHistory
    /\ \E r \in SmoothReadings :
         /\ relative_height' = r
         /\ volume_smoothing_buffer' = SmoothBuffer(volume_smoothing_buffer, r)
         /\ smooth_height' = SmoothValue(volume_smoothing_buffer, r)
         /\ history' = Append(history, r)
    /\ step' = "smooth"
    /\ yielded' = 0
    /\ UNCHANGED others
    /\ UNCHANGED <<camera, pc, current_volume, gesture_active, simulated_finger_y,
                   finger_direction, volume_method, vc_current_volume, last_set_time,
                   now, set_result, invoked, invoke_time>>

\* app.py:222-227  calibrate
SmoothCalibrate ==
    /\ Len(history) < MaxHistory
    /\ calibrate
    /\ history' = Append(history, -1)
    /\ step' = "calibrate"
    /\ yielded' = 0
    /\ UNCHANGED others
    /\ UNCHANGED <<camera, pc, current_volume, gesture_active, simulated_finger_y,
                   finger_direction, relative_height, smooth_height, volume_method,
                   vc_current_volume, last_set_time, now, set_result, invoked,
                   invoke_time>>

SmoothNext ==
    \/ SmoothCall
    \/ SmoothCalibrate

SmoothInit == InitWith({"open"}, {"linux_pulseaudio"})

SmoothSpec == SmoothInit /\ [][SmoothNext]_vars

----------------------------------------------------------------------------
\* The simulation branch's smoothing and gate (app.py:85-92) fed any readings
\* of 0..100 instead of the oscillator's.  Here history is the log of the
\* frames: the smoothed value presented to the gate and the volume after it.

\* Readings 48, 52 and 60
GateReadings == {48 * Scale, 52 * Scale, 60 * Scale}

SimGateFrame ==
    /\ \E r \in GateReadings, delay \in 0..MaxDelay, command_ok \in BOOLEAN :
         LET t == now + delay
         IN  /\ t + SleepTicks <= MaxTime
             /\ SmoothAndGate(r, SimThreshold, t, command_ok)
             /\ now' = t + SleepTicks
    /\ history' = Append(history, [presented |-> smooth_height',
                                   volume |-> current_volume',
                                   result |-> set_result'])
    /\ step' = "sim"
    /\ yielded' = 1
    /\ UNCHANGED others
    /\ UNCHANGED <<camera, pc, simulated_finger_y, finger_direction, volume_method>>

GateInit == InitWith({"simulation"}, HostMethods)

GateNext == SimGateFrame

GateSpec == GateInit /\ [][GateNext]_vars

----------------------------------------------------------------------------
\* Start-up and shutdown of __main__ on any machine: each of the device
\* indices opens, fails to open or raises, and configuring the opened device
\* succeeds or raises.

OpenOutcomes == {"open", "fail", "raise"}

\* app.py:25-29  VideoCapture(0), then VideoCapture(i) for i in 1..3 until
\* one is opened; an exception of a constructor leaves the loop
RECURSIVE TryIndices_NoBreak(_, _, _)
TryIndices_NoBreak(opens, i, last) ==
    IF i > 3 THEN last
    ELSE IF opens[i] = "raise" THEN [kind |-> "raised", index |-> i]
    ELSE TryIndices_NoBreak(opens, i + 1,
            [kind |-> IF opens[i] = "open" THEN "opened" ELSE "unopened", index |-> i])

RECURSIVE TryIndices(_, _, _)
TryIndices(opens, i, last) ==
    IF i > 3 \/ last.kind = "opened" THEN last
    ELSE IF opens[i] = "raise" THEN [kind |-> "raised", index |-> i]
    ELSE TryIndices(opens, i + 1,
            [kind |-> IF opens[i] = "open" THEN "opened" ELSE "unopened", index |-> i])

\* app.py:21-47  initialize_camera(): the camera it leaves, the devices
\* left opened, and the value it returns
initialize_camera(h) ==
    LET t == TryIndices(h.opens, 0, [kind |-> "unopened", index |-> -1])
    IN  IF t.kind = "raised"
        THEN [camera |-> "simulation", held |-> {}, returned |-> TRUE]
        ELSE IF t.kind = "opened"
        THEN IF h.set_ok
             THEN [camera |-> "open", held |-> {t.index}, returned |-> TRUE]
             ELSE [camera |-> "simulation", held |-> {t.index}, returned |-> TRUE]
        ELSE [camera |-> "simulation", held |-> {}, returned |-> TRUE]

\* app.py:229-243  __main__ up to app.run: the server starts only if
\* initialize_camera() returned True
InitializeCamera ==
    /\ proc = "start"
    /\ LET r == initialize_camera(host)
       IN  /\ camera' = r.camera
           /\ held' = r.held
           /\ proc' = IF r.returned THEN "serving" ELSE "refused"
    /\ step' = "initialize_camera"
    /\ yielded' = 0
    /\ UNCHANGED <<host, pipeline>>

\* app.py:244-247  the finally clause: camera.release() if camera is truthy,
\* then cv2.destroyAllWindows().  The str "simulation" is truthy and has no
\* release: the AttributeError leaves the clause.
Shutdown ==
    /\ proc = "serving"
    /\ IF camera = "simulation"
       THEN /\ proc' = "exit_raised"
            /\ UNCHANGED <<camera, held>>
       ELSE /\ proc' = "exited"
            /\ camera' = IF camera = "none" THEN "none" ELSE "closed"
            /\ held' = IF camera = "none" THEN held ELSE {}
    /\ step' = "shutdown"
    /\ yielded' = 0
    /\ UNCHANGED <<host, pipeline>>

CameraHosts ==
    {[HostOf("none", "linux_pulseaudio") EXCEPT !.opens = o, !.set_ok = b] :
        o \in [DeviceIndices -> OpenOutcomes], b \in BOOLEAN}

\* Before __main__ runs: camera is None
CameraInit ==
    /\ ModuleLoad({"none"}, {"linux_pulseaudio"})
    /\ host \in CameraHosts
    /\ proc = "start"
    /\ held = {}

CameraNext ==
    \/ InitializeCamera
    \/ Shutdown

CameraSpec == CameraInit /\ [][CameraNext]_vars

\* The pipeline of Spec with the shutdown of the process
LifeNext ==
    \/ proc = "serving" /\ SimFrame
    \/ proc = "serving" /\ LiveFrameHand
    \/ proc = "serving" /\ LiveFrameNoHand
    \/ proc = "serving" /\ LiveReadFail
    \/ proc = "serving" /\ Calibrate
    \/ Shutdown

LifeSpec == Init /\ [][LifeNext]_vars

----------------------------------------------------------------------------
\* VolumeController() constructed on any machine, then used: the OS family is
\* any of the three known ones or another, and each of the two Linux probes
\* (pactl --version, amixer --version) succeeds, finds no such program, exits
\* with an error, or cannot be executed.

Systems == {"Windows", "Darwin", "Linux", "Other"}

\* "ok"; "missing": FileNotFoundError; "error": CalledProcessError;
\* "denied": another exception, such as PermissionError
ProbeOutcomes == {"ok", "missing", "error", "denied"}

\* volume_controller.py:40-55  _init_linux_volume(): the handle it assigns,
\* "raised" if an exception leaves it
init_linux_volume(h) ==
    IF h.pactl = "ok" THEN "linux_pulseaudio"
    ELSE IF h.pactl \in {"error", "missing"}
    THEN IF h.amixer = "ok" THEN "linux_alsa"
         ELSE IF h.amixer \in {"error", "missing"} THEN "unsupported"
         ELSE "raised"
    ELSE "raised"

\* volume_controller.py:18-30  _init_system_volume(): volume_method after
\* it, "unset" if nothing assigned the attribute
init_system_volume(h) ==
    IF h.system = "Windows" THEN "windows_powershell"
    ELSE IF h.system = "Darwin" THEN "macos_osascript"
    ELSE IF h.system = "Linux"
    THEN IF init_linux_volume(h) = "raised" THEN "unset" ELSE init_linux_volume(h)
    ELSE "unset"

\* volume_controller.py:8-16  VolumeController.__init__, at the load of app.py
Construct ==
    /\ proc = "loading"
    /\ proc' = "serving"
    /\ volume_method' = init_system_volume(host)
    /\ vc_current_volume' = InitialVolume
    /\ last_set_time' = 0
    /\ step' = "construct"
    /\ yielded' = 0
    /\ UNCHANGED <<camera, pc, current_volume, gesture_active, volume_smoothing_buffer,
                   simulated_finger_y, finger_direction, relative_height, smooth_height,
                   now, set_result, invoked, invoke_time, history,
                   host, held, loops, writer, sv_pc, sv_acc>>

ProbeHosts ==
    {[HostOf("simulation", "unset") EXCEPT !.system = s, !.pactl = p, !.amixer = a] :
        s \in Systems, p \in ProbeOutcomes, a \in ProbeOutcomes}

ProbeInit ==
    /\ ModuleLoad({"simulation"}, {"unset"})
    /\ host \in ProbeHosts
    /\ proc = "loading"
    /\ held = {}

ProbeNext ==
    \/ Construct
    \/ proc = "serving" /\ CallSetVolume
    \/ proc = "serving" /\ Mute
    \/ proc = "serving" /\ Unmute
    \/ proc = "serving" /\ VolumeUp
    \/ proc = "serving" /\ VolumeDown

ProbeSpec == ProbeInit /\ [][ProbeNext]_vars

----------------------------------------------------------------------------
\* The live pipeline with the fingertip at the top row or at the bottom row of
\* the 640x480 frame and the wrist in the middle: the two readings are 100
\* (clamped from 110) and 0 (clamped from -9.75), and their means are the
\* multiples of 1/2, 1/3, 1/4 and 1/5 of 100.

RangeFingerYs == {0, 479}
RangeWristYs == {240}

RangeFrameHand == LiveFrameHandWith(RangeFingerYs, RangeWristYs)

RangeInit == InitWith({"open"}, {"linux_pulseaudio"})

RangeNext ==
    \/ RangeFrameHand
    \/ LiveFrameNoHand
    \/ Calibrate

RangeSpec == RangeInit /\ [][RangeNext]_vars

----------------------------------------------------------------------------
\* Several /video_feed requests on the threaded server (app.py:243): each
\* request gets its own generate_frames() generator, run in the request's
\* thread over the same globals and the same camera.

\* app.py:206-210  video_feed(): a new generator, started by the response
VideoFeed(c) ==
    /\ loops[c] = "none"
    /\ loops' = [loops EXCEPT ![c] = "running"]
    /\ step' = "video_feed"
    /\ yielded' = 0
    /\ UNCHANGED <<camera, pc, current_volume, gesture_active, volume_smoothing_buffer,
                   simulated_finger_y, finger_direction, relative_height, smooth_height,
                   volume_method, vc_current_volume, last_set_time, now, set_result,
                   invoked, invoke_time, history, host, proc, held, writer, sv_pc, sv_acc>>

\* app.py:111-148  an iteration of request c's generator, hand detected
StreamFrameHand(c) ==
    /\ loops[c] = "running"
    /\ camera = "open"
    /\ \E delay \in 0..MaxDelay, command_ok \in BOOLEAN,
          finger_y \in FingerYs, wrist_y \in WristYs :
         LET t == now + delay
         IN  /\ t <= MaxTime
             /\ SmoothAndGate(LiveReading(finger_y, wrist_y), LiveThreshold, t, command_ok)
             /\ now' = t
    /\ writer' = c
    /\ step' = "hand"
    /\ yielded' = 1
    /\ UNCHANGED <<camera, pc, simulated_finger_y, finger_direction, volume_method,
                   history, host, proc, held, loops, sv_pc, sv_acc>>

\* app.py:111-127, 156-157  an iteration of request c's generator, no hand
StreamFrameNoHand(c) ==
    /\ loops[c] = "running"
    /\ camera = "open"
    /\ \E delay \in 0..MaxDelay :
         /\ now + delay <= MaxTime
         /\ now' = now + delay
    /\ gesture_active' = FALSE
    /\ relative_height' = -1
    /\ smooth_height' = NoMean
    /\ no_set_volume
    /\ writer' = c
    /\ step' = "nohand"
    /\ yielded' = 1
    /\ UNCHANGED <<camera, pc, current_volume, volume_smoothing_buffer,
                   simulated_finger_y, finger_direction, volume_method, history,
                   host, proc, held, loops, sv_pc, sv_acc>>

\* app.py:113-118  request c's generator ends: camera.read() fails, or the
\* camera is found not opened
StreamStop(c) ==
    /\ loops[c] = "running"
    /\ camera \in {"open", "closed"}
    /\ camera' \in IF camera = "open" THEN {"open", "closed"} ELSE {"closed"}
    /\ loops' = [loops EXCEPT ![c] = "stopped"]
    /\ step' = "stop"
    /\ yielded' = 0
    /\ UNCHANGED <<pc, current_volume, gesture_active, volume_smoothing_buffer,
                   simulated_finger_y, finger_direction, relative_height, smooth_height,
                   volume_method, vc_current_volume, last_set_time, now, set_result,
                   invoked, invoke_time, history, host, proc, held, writer, sv_pc, sv_acc>>

ConcInit == InitWith({"open"}, {"unsupported"})

ConcNext ==
    \/ \E c \in Clients : VideoFeed(c)
    \/ \E c \in Clients : StreamFrameHand(c)
    \/ \E c \in Clients : StreamFrameNoHand(c)
    \/ \E c \in Clients : StreamStop(c)
    \/ Calibrate

ConcSpec == ConcInit /\ [][ConcNext]_vars

----------------------------------------------------------------------------
\* smooth_volume taken statement by statement in the generator's thread,
\* with calibrate running in another request's thread between any two of
\* its statements.  No lock guards volume_smoothing_buffer.

\* What no statement of smooth_volume touches
beside_smooth == <<camera, pc, current_volume, gesture_active, simulated_finger_y,
                   finger_direction, volume_method, vc_current_volume, last_set_time,
                   now, set_result, invoked, invoke_time, history, yielded, host, proc,
                   held, loops, writer>>

\* app.py:53  volume_smoothing_buffer.append(new_volume)
SmoothAppend ==
    /\ sv_pc = "idle"
    /\ \E r \in SmoothReadings :
         /\ relative_height' = r
         /\ volume_smoothing_buffer' = Append(volume_smoothing_buffer, r)
    /\ sv_pc' = "len"
    /\ step' = "append"
    /\ UNCHANGED <<smooth_height, sv_acc>>
    /\ UNCHANGED beside_smooth

\* app.py:54  if len(volume_smoothing_buffer) > SMOOTHING_WINDOW
SmoothCheckLen ==
    /\ sv_pc = "len"
    /\ sv_pc' = IF Len(volume_smoothing_buffer) > SMOOTHING_WINDOW THEN "pop" ELSE "sum"
    /\ step' = "len"
    /\ UNCHANGED <<volume_smoothing_buffer, relative_height, smooth_height, sv_acc>>
    /\ UNCHANGED beside_smooth

\* app.py:55  volume_smoothing_buffer.pop(0): IndexError on an empty list
SmoothPop ==
    /\ sv_pc = "pop"
    /\ IF volume_smoothing_buffer = <<>>
       THEN /\ sv_pc' = "index_error"
            /\ UNCHANGED volume_smoothing_buffer
       ELSE /\ sv_pc' = "sum"
            /\ volume_smoothing_buffer' = Tail(volume_smoothing_buffer)
    /\ step' = "pop"
    /\ UNCHANGED <<relative_height, smooth_height, sv_acc>>
    /\ UNCHANGED beside_smooth

\* app.py:57  sum(volume_smoothing_buffer)
SmoothSum ==
    /\ sv_pc = "sum"
    /\ sv_acc' = SumSeq(volume_smoothing_buffer)
    /\ sv_pc' = "divide"
    /\ step' = "sum"
    /\ UNCHANGED <<volume_smoothing_buffer, relative_height, smooth_height>>
    /\ UNCHANGED beside_smooth

\* app.py:57  ... / len(volume_smoothing_buffer), and the return:
\* ZeroDivisionError on an empty list
SmoothDivide ==
    /\ sv_pc = "divide"
    /\ IF volume_smoothing_buffer = <<>>
       THEN /\ sv_pc' = "zero_division"
            /\ UNCHANGED smooth_height
       ELSE /\ sv_pc' = "idle"
            /\ smooth_height' = [sum |-> sv_acc, n |-> Len(volume_smoothing_buffer)]
    /\ step' = "smooth"
    /\ UNCHANGED <<volume_smoothing_buffer, relative_height, sv_acc>>
    /\ UNCHANGED beside_smooth

RaceInit == InitWith({"open"}, {"linux_pulseaudio"})

RaceNext ==
    \/ SmoothAppend
    \/ SmoothCheckLen
    \/ SmoothPop
    \/ SmoothSum
    \/ SmoothDivide
    \/ Calibrate

RaceSpec == RaceInit /\ [][RaceNext]_vars

----------------------------------------------------------------------------
\* The simulation running for more than a period of its oscillator, each
\* iteration taking just its sleep.

OscFrame == SimFrameWith({0}, OscMaxTime)

OscInit == InitWith({"simulation"}, HostMethods)

OscNext == OscFrame

OscSpec == OscInit /\ [][OscNext]_vars

----------------------------------------------------------------------------
\* Properties

ReadingSteps == {"sim", "hand"}

\* |mean - cv| > threshold, for a mean [sum, n]
Farther(sh, cv, threshold) ==
    \/ sh.sum > (cv + threshold) * sh.n * Scale
    \/ sh.sum < (cv - threshold) * sh.n * Scale

\* floor of a mean [sum, n]
Floor(sh) == sh.sum \div (sh.n * Scale)

\* C1: the volume shown by the pipeline and the status endpoint
\* (app.current_volume) changes only in a step whose set_volume call
\* returned True.
C1_VolumeChangesOnlyOnSuccess ==
    [][current_volume' # current_volume => set_result' = "true"]_vars

\* C2 as claimed: any two calls of _set_system_volume are at least
\* min_interval apart, whatever the calls' outcomes.
C2_AnyTwoWritesSpaced ==
    [][(step' \in DispatchSteps /\ invoked' /\ invoke_time # -1)
          => invoke_time' - invoke_time >= MinInterval]_vars

\* C2 as amended: every call of _set_system_volume comes at least min_interval
\* after the latest write that succeeded (a failed write starts no interval).
C2_WriteSpacedAfterSuccess ==
    [][(step' \in DispatchSteps /\ invoked')
          => invoke_time' - last_set_time >= MinInterval]_vars

C2_Witness ==
    /\ step \in DispatchSteps
    /\ invoked
    /\ last_set_time > 0
    /\ invoke_time - last_set_time >= MinInterval
    /\ set_result = "false"

\* The readings since the window was last empty: the log after its last -1
RECURSIVE SinceEmpty(_)
SinceEmpty(h) ==
    IF h = <<>> \/ h[Len(h)] = -1
    THEN <<>>
    ELSE Append(SinceEmpty(SubSeq(h, 1, Len(h) - 1)), h[Len(h)])

LastOf(h, k) == SubSeq(h, Len(h) - k + 1, Len(h))

\* C3: from an empty window, the K-th smooth_volume call returns the mean of
\* all K readings when K <= 5, and of the 5 most recent when K > 5.
C3_MovingAverage ==
    step = "smooth" =>
        LET run == SinceEmpty(history)
            m == Min2(Len(run), SMOOTHING_WINDOW)
        IN  /\ smooth_height.n = m
            /\ smooth_height.sum = SumSeq(LastOf(run, m))
            /\ volume_smoothing_buffer = LastOf(run, m)

C3_Witness ==
    LET run == SinceEmpty(history)
    IN  /\ step = "smooth"
        /\ Len(run) = SMOOTHING_WINDOW + 2
        /\ run[1] # run[SMOOTHING_WINDOW + 1]
        /\ run[2] # run[SMOOTHING_WINDOW + 2]

\* C4: a frame assigns the volume and calls set_volume only if the smoothed
\* value is farther from the volume than the mode's threshold (1 simulation,
\* 2 live); otherwise it does neither.
C4_GateThreshold ==
    [][step' \in ReadingSteps =>
          LET threshold == IF step' = "sim" THEN 1 ELSE 2
              far == Farther(smooth_height', current_volume, threshold)
          IN  /\ (set_result' # "none" \/ current_volume' # current_volume) => far
              /\ ~far => (set_result' = "none" /\ ~invoked'
                          /\ current_volume' = current_volume)]_vars

C4_Witness ==
    /\ step = "hand"
    /\ set_result = "none"
    /\ smooth_height.sum = (current_volume + 2) * smooth_height.n * Scale

\* C5: calibrate empties the window, and the smooth_volume(r) call that
\* follows leaves the window <<r>> and returns r.
C5_Recalibration ==
    [][/\ step' = "calibrate" => volume_smoothing_buffer' = <<>>
       /\ (step = "calibrate" /\ step' = "smooth") =>
             LET r == history'[Len(history')]
             IN  /\ volume_smoothing_buffer' = <<r>>
                 /\ smooth_height'.n = 1
                 /\ smooth_height'.sum = r]_vars

C5_Witness ==
    /\ step = "smooth"
    /\ Len(history) >= 3
    /\ history[Len(history) - 1] = -1
    /\ history[Len(history) - 2] # -1
    /\ history[Len(history)] # history[Len(history) - 2]
    /\ volume_smoothing_buffer = <<history[Len(history)]>>

\* C6: with the backend unsupported, no set_volume call returns True, the
\* volume stays at its initial 50 and the loop is not stopped by it.
C6_UnsupportedVolumeStays ==
    volume_method = "unsupported" =>
        /\ set_result # "true"
        /\ current_volume = InitialVolume
        /\ (camera = "simulation" => pc = "running")

\* C7: a live frame without a hand leaves gesture_active false and the
\* volume, the window and the dispatcher as they were: no smoothing, no gate,
\* no set_volume call.
C7_NoHandFrame ==
    [][step' = "nohand" =>
          /\ gesture_active' = FALSE
          /\ smooth_height' = NoMean
          /\ set_result' = "none"
          /\ ~invoked'
          /\ UNCHANGED <<current_volume, volume_smoothing_buffer,
                         vc_current_volume, last_set_time>>]_vars

C7_Witness ==
    /\ step = "nohand"
    /\ volume_smoothing_buffer # <<>>
    /\ current_volume # InitialVolume
    /\ ~gesture_active

\* C8: after a frame, gesture_active is true exactly if the frame obtained a
\* reading, whether or not the gate accepted a change.
C8_GestureActiveIffReading ==
    step \in {"sim", "hand", "nohand"} => (gesture_active <=> step \in ReadingSteps)

\* C9: a set_volume call less than min_interval after the latest successful
\* write returns False, calls no backend and leaves current_volume and
\* last_set_time alone; so two successful writes are at least min_interval apart.
C9_RateLimit ==
    [][/\ (step' \in DispatchSteps /\ now' - last_set_time < MinInterval) =>
             /\ set_result' = "false"
             /\ ~invoked'
             /\ UNCHANGED <<vc_current_volume, last_set_time, invoke_time>>
       /\ last_set_time' # last_set_time =>
             last_set_time' - last_set_time >= MinInterval]_vars

C9_Witness ==
    /\ step \in DispatchSteps
    /\ set_result = "false"
    /\ ~invoked
    /\ last_set_time > 0
    /\ now - last_set_time < MinInterval
    /\ volume_method = "linux_alsa"

\* C10: from volume 50, three consecutive simulation frames that present
\* values flooring to 48, 50 and 53 take the volume to 48, 50 and 53 in that
\* order; and when each of the three writes succeeded, the dispatcher's
\* volume ends at 53 too.
C10_SimulationTrace ==
    \A i \in 1..(Len(history) - 2) :
        LET before == IF i = 1 THEN InitialVolume ELSE history[i - 1].volume
        IN  (/\ before = 50
             /\ Floor(history[i].presented) = 48
             /\ Floor(history[i + 1].presented) = 50
             /\ Floor(history[i + 2].presented) = 53)
            => /\ history[i].volume = 48
               /\ history[i + 1].volume = 50
               /\ history[i + 2].volume = 53
               /\ (/\ i + 2 = Len(history)
                   /\ \A j \in i..(i + 2) : history[j].result = "true")
                  => (vc_current_volume = 53 /\ current_volume = 53)

C10_Witness ==
    /\ Len(history) = 3
    /\ Floor(history[1].presented) = 48
    /\ Floor(history[2].presented) = 50
    /\ Floor(history[3].presented) = 53
    /\ \A j \in 1..3 : history[j].result = "true"
    /\ current_volume = 53

\* Device index i opened and every index before it failed to open
LowestOpened(i) ==
    /\ host.opens[i] = "open"
    /\ \A j \in 0..(i - 1) : host.opens[j] = "fail"

\* C11: whatever each of the device indices 0..3 does (open, fail, raise),
\* initialize_camera returns True, so the server starts, and the camera it
\* leaves is the device of the lowest index that opened, or "simulation";
\* never None and never an unopened device.
C11_InitializeCameraTotal ==
    /\ proc # "refused"
    /\ proc = "serving" =>
         \/ camera = "simulation"
         \/ /\ camera = "open"
            /\ \E i \in DeviceIndices : held = {i} /\ LowestOpened(i)

C11_Witness ==
    /\ proc = "serving"
    /\ camera = "open"
    /\ held = {2}
    /\ host.opens[3] = "raise"

\* C12: once camera.read() has failed and the generator has stopped, the
\* status endpoint reports camera_active false.
C12_StatusAfterExhaustion ==
    pc = "stopped" => ~get_status.camera_active

C14_HandlesReleased ==
    /\ proc # "exit_raised"
    /\ (pc = "stopped" \/ proc = "exited") => held = {}

C19_FailedWriteChangesNothing ==
    [][(step' \in DispatchSteps /\ invoked') =>
         /\ set_result' = "false" => UNCHANGED <<vc_current_volume, last_set_time>>
         /\ volume_method \in {"unsupported", "unset"} => set_result' = "false"
         /\ set_result' \in {"true", "false"}]_vars

C19_Witness ==
    /\ step \in DispatchSteps
    /\ invoked
    /\ set_result = "false"
    /\ volume_method = "macos_osascript"
    /\ last_set_time > 0
    /\ invoke_time - last_set_time >= MinInterval
    /\ vc_current_volume = 30

\* The handle the priority order names for a machine
ExpectedHandle(h) ==
    CASE h.system = "Windows" -> "windows_powershell"
      [] h.system = "Darwin" -> "macos_osascript"
      [] h.system = "Linux" /\ h.pactl = "ok" -> "linux_pulseaudio"
      [] h.system = "Linux" /\ h.pactl # "ok" /\ h.amixer = "ok" -> "linux_alsa"
      [] OTHER -> "unsupported"

\* C20: once the controller is constructed, on any OS family and with any
\* probe outcomes, the backend handle is the member of the closed set that
\* the priority order names (unsupported for an unrecognised OS family), and
\* stays so through every dispatcher call.
C20_HandleFromClosedSet ==
    proc = "serving" => volume_method = ExpectedHandle(host)

\* C18: the volume shown and the dispatcher's volume are always integers in
\* 0..100, and a frame whose candidate was accepted leaves the volume shown
\* at floor(smoothed value), clamped to 0..100, which is also the
\* dispatcher's volume if the write succeeded; whatever the readings and
\* however calibrate is interleaved.
C18_VolumeInRange ==
    /\ current_volume \in 0..100
    /\ vc_current_volume \in 0..100
    /\ (step = "hand" /\ set_result # "none") =>
          current_volume = ClampPercent(Floor(smooth_height))
    /\ (step = "hand" /\ set_result = "true") =>
          vc_current_volume = ClampPercent(Floor(smooth_height))

C18_Witness ==
    /\ step = "hand"
    /\ set_result = "true"
    /\ volume_smoothing_buffer = <<0, 100 * Scale, 0>>
    /\ current_volume = 33
    /\ vc_current_volume = 33

\* C15: at most one generator at a time runs the pipeline's iterations: the
\* request whose generator writes the volume, gesture_active and the window
\* changes only once the earlier writer's generator has ended.
C15_SingleWriter ==
    [][(writer # 0 /\ writer' # writer) => loops[writer] # "running"]_vars

\* C16: with calibrate running between the statements of smooth_volume,
\* smooth_volume never pops from or divides by the length of an empty window,
\* and the value it returns is the mean of a window that ends with the
\* reading it appended.
C16_WindowSynchronized ==
    /\ sv_pc \notin {"index_error", "zero_division"}
    /\ (step = "smooth" /\ sv_pc = "idle") =>
          /\ volume_smoothing_buffer # <<>>
          /\ volume_smoothing_buffer[Len(volume_smoothing_buffer)] = relative_height
          /\ smooth_height = Mean(volume_smoothing_buffer)

\* C21: the reading of a simulation frame is the live formula applied to the
\* oscillator's offset from the centre line 240: offset -200 gives 100,
\* offset +200 gives 0, linear in between.
C21_SimReadingIsLiveFormula ==
    step = "sim" => relative_height = LiveReading(simulated_finger_y, OscStart)

\* C22: the oscillator starts at 240 moving down the frame, moves by exactly
\* 2 every simulation frame, stays within 100..380, turns upward exactly at
\* 380 and downward exactly at 100, and every simulation frame has a reading.
C22_Oscillator ==
    /\ simulated_finger_y = OscStart /\ finger_direction = 1
    /\ [][step' = "sim" =>
            /\ simulated_finger_y' \in OscLow..OscHigh
            /\ Abs(simulated_finger_y' - simulated_finger_y) = OscStep
            /\ simulated_finger_y' - simulated_finger_y = finger_direction * OscStep
            /\ finger_direction' = IF simulated_finger_y' = OscHigh THEN -1
                                   ELSE IF simulated_finger_y' = OscLow THEN 1
                                   ELSE finger_direction
            /\ relative_height' \in 0..(100 * Scale)
            /\ volume_smoothing_buffer' # <<>>
            /\ smooth_height' # NoMean]_vars

C22_Witness ==
    /\ step = "sim"
    /\ simulated_finger_y = OscStart + OscStep
    /\ finger_direction = 1
    /\ now > 280

\* Two means [sum, n] of the same value
SameMean(a, b) == a.n > 0 /\ b.n > 0 /\ a.sum * b.n = b.sum * a.n

\* C23: a change the gate accepted is written again while the dispatcher has
\* not taken it: a frame that presents the same smoothed value as the frame
\* before it, on a host whose backend works, while the volume shown differs
\* from the dispatcher's volume, calls set_volume.
C23_RejectedWriteRetried ==
    [][(/\ step \in ReadingSteps
        /\ step' \in ReadingSteps
        /\ SameMean(smooth_height, smooth_height')
        /\ volume_method = "linux_pulseaudio"
        /\ current_volume # vc_current_volume) => set_result' # "none"]_vars

====
